---- MODULE Spec2Model ----
(***************************************************************************)
(* Model of the analysis job pipeline of MP4toExplainText:                 *)
(*   src/core/video_processor.py  VideoProcessor (the Scheduler, one lane) *)
(*   src/core/database.py         Database       (the Job Store)           *)
(*   src/core/gemini_api.py       GeminiAPI      (Analysis Client, parser) *)
(*   src/ui/main_window.py        MainWindow     (the callers)             *)
(*                                                                         *)
(* Execution contexts.  process_video coroutines run on one asyncio event  *)
(* loop: the code between two awaits is one atomic step.  The executor     *)
(* (max_workers=1) runs analyze_video, add_tags and add_analysis_result;   *)
(* an executor step and the resumption of the coroutine awaiting it are    *)
(* taken as one step.  The GUI thread runs cancel_processing, on_reprocess *)
(* and the run_coroutine_threadsafe calls.                                 *)
(***************************************************************************)
EXTENDS Integers, Sequences, FiniteSets, TLC

\* ---------------------------------------------------------------- bounds
NumPaths == 2      \* distinct file paths a caller can submit
MaxCalls == 3      \* process_video calls in one behaviour
MaxBatch == 2      \* length of the list given to process_multiple_videos
MaxQueue == 1      \* coroutines handed to the loop and not yet started
MaxFaults == 1     \* consecutive Job Store calls that raise (SpecFault)
MaxRows == 3       \* rows of analysis_results (SpecStore)
MaxTime == 1       \* seconds the database clock advances (SpecStore)
MaxAttempts == 1   \* rows of analysis_results (SpecLive)

Paths == {<<"video", i>> : i \in 1..NumPaths}

\* ------------------------------------------------------------- constants
\* VideoStatus, src/core/constants.py
UNPROCESSED == "UNPROCESSED"
PENDING == "PENDING"
PROCESSING == "PROCESSING"
FIX == "FIX"
ERROR == "ERROR"
CANCELED == "CANCELED"
VideoStatus == {UNPROCESSED, PENDING, PROCESSING, FIX, ERROR, CANCELED}
get_default == UNPROCESSED
is_validM(status) == TRUE
is_valid(status) == status \in VideoStatus

NoProgress == -1                \* progress: int = None
Version == "1.0"                \* version passed to add_analysis_result

VARIABLES
  videos,            \* table videos: row i has id i (AUTOINCREMENT)
  analysis_results,  \* table analysis_results, in insertion order
  tags,              \* table tags, in insertion order
  processing,        \* VideoProcessor._processing
  cancel_requested,  \* VideoProcessor._cancel_requested
  calls,             \* the process_video coroutines, in call order
  batch,             \* the process_multiple_videos coroutine
  loop_queue,        \* coroutines handed to the loop, not yet started
  returned,          \* the calls that ended in the last step
  store_faults,      \* Job Store calls still to raise (environment)
  wait,              \* one GeminiAPI.analyze_video call, provider call by call
  now,               \* CURRENT_TIMESTAMP of the database, in seconds
  store_call,        \* the call a handler of the window made in this step
  app                \* the process: GOOGLE_API_KEY set or not, where main is

vars == <<videos, analysis_results, tags, processing, cancel_requested, calls,
          batch, loop_queue, returned, store_faults, wait, now, store_call,
          app>>

\* No handler called the Job Store or the VideoProcessor in this step.
NoCall == [op |-> "none"]

\* The state the event loop's code reads and writes, as one record.
World == [videos |-> videos, analysis_results |-> analysis_results,
          tags |-> tags, processing |-> processing,
          cancel_requested |-> cancel_requested, calls |-> calls,
          batch |-> batch, returned |-> <<>>, store_faults |-> store_faults,
          now |-> now, store_call |-> NoCall]

Becomes(world) == \E w \in {world} :
  /\ videos' = w.videos
  /\ analysis_results' = w.analysis_results
  /\ tags' = w.tags
  /\ processing' = w.processing
  /\ cancel_requested' = w.cancel_requested
  /\ calls' = w.calls
  /\ batch' = w.batch
  /\ returned' = w.returned
  /\ store_faults' = w.store_faults
  /\ now' = w.now
  /\ store_call' = w.store_call
  /\ UNCHANGED <<wait, app>>

\* ------------------------------------------------------------- Job Store
\* A store call raises when the environment has a fault pending for it
\* (sqlite3.OperationalError: locked database, full disk).
StoreRaises(w) == w.store_faults > 0
AfterFault(w) == [w EXCEPT !.store_faults = @ - 1]

VideoIds(w) == 1..Len(w.videos)
IdOfPath(w, file_path) ==
  CHOOSE i \in VideoIds(w) : w.videos[i].file_path = file_path

\* The UNIQUE constraint on videos.file_path.
PathPresentM(w, file_path) == FALSE
PathPresent(w, file_path) ==
  \E i \in VideoIds(w) : w.videos[i].file_path = file_path

\* Database.add_video: INSERT; on IntegrityError SELECT the existing id.
add_video(w, file_path) ==
  IF StoreRaises(w)
    THEN [w |-> AfterFault(w), ok |-> FALSE, id |-> 0]
  ELSE IF PathPresent(w, file_path)
    THEN [w |-> w, ok |-> TRUE, id |-> IdOfPath(w, file_path)]
  ELSE [w |-> [w EXCEPT !.videos = Append(@,
                 [file_path |-> file_path, status |-> get_default,
                  progress |-> 0, updated_at |-> w.now,
                  prompt_name |-> <<>>])],
        ok |-> TRUE, id |-> Len(w.videos) + 1]

\* Database.update_video_status
update_video_status(w, video_id, status, progress) ==
  IF ~is_valid(status)
    THEN [w |-> w, ok |-> FALSE]
  ELSE IF StoreRaises(w)
    THEN [w |-> AfterFault(w), ok |-> FALSE]
  ELSE IF video_id \notin VideoIds(w)
    THEN [w |-> w, ok |-> TRUE]
  ELSE IF progress # NoProgress
    THEN [w |-> [w EXCEPT !.videos[video_id].status = status,
                          !.videos[video_id].progress = progress,
                          !.videos[video_id].updated_at = w.now],
          ok |-> TRUE]
  ELSE [w |-> [w EXCEPT !.videos[video_id].status = status,
                        !.videos[video_id].updated_at = w.now],
        ok |-> TRUE]

\* Database.update_video_prompt: the column prompt_name of the row (<<>>
\* is NULL); False when no row has the id or the store raises.  The one
\* caller in the sources, MainWindow.process_selected_videos, is connected
\* to no widget, so no step of the program reaches it.
update_video_prompt(w, video_id, prompt_name) ==
  IF StoreRaises(w)
    THEN [w |-> AfterFault(w), ok |-> FALSE]
  ELSE IF video_id \notin VideoIds(w)
    THEN [w |-> w, ok |-> FALSE]
  ELSE [w |-> [w EXCEPT !.videos[video_id].prompt_name = <<prompt_name>>,
                        !.videos[video_id].updated_at = w.now],
        ok |-> TRUE]

\* ------------------------------------------------ provider response text
\* A parsed value: a string, or a value that is not a string (a list, with
\* its str() and its JSON text).
Str(s) == [t |-> "str", s |-> s]
List(s, j) == [t |-> "list", s |-> s, j |-> j]
Null == [t |-> "null", s |-> ""]
\* What a parse returns: a dict (its items in insertion order) or another
\* Python value; Raised marks an exception of the parse.
Dict(items) == [type |-> "dict", items |-> items]
NonDict(type) == [type |-> type, items |-> <<>>]
Raised == NonDict("exception")

\* A response text is described by what each parsing primitive yields on
\* it: json.loads, the shape test ^\s*\{.*\}\s*$, eval, and re.findall of
\* the key/value pattern.
Text(raw, json, brace, literal, pairs) ==
  [raw |-> raw, json |-> json, brace |-> brace, literal |-> literal,
   pairs |-> pairs]

SceneGender == <<<<"Appropriate Scene", Str("combat")>>,
                 <<"character_gender", Str("male")>>>>

SceneList == <<<<"Appropriate Scene", List("['combat']", "[\"combat\"]")>>>>

RespObject ==
  Text("{\"Appropriate Scene\": \"combat\", \"character_gender\": \"male\"}",
       Dict(SceneGender), TRUE, Dict(SceneGender), SceneGender)
RespNested ==
  Text("{\"Appropriate Scene\": [\"combat\"]}",
       Dict(SceneList), TRUE, Dict(SceneList), <<>>)
RespList == Text("[]", NonDict("list"), FALSE, NonDict("list"), <<>>)
RespNumber == Text("42", NonDict("int"), FALSE, NonDict("int"), <<>>)
RespString == Text("\"combat\"", NonDict("str"), FALSE, NonDict("str"), <<>>)
RespNull == Text("null", NonDict("NoneType"), FALSE, Raised, <<>>)
RespLiteral ==
  Text("{'Appropriate Scene': 'combat', 'character_gender': 'male'}",
       Raised, TRUE, Dict(SceneGender), SceneGender)
RespKeyValue ==
  Text("Scene: combat, Tempo: fast", Raised, FALSE, Raised,
       <<<<"Scene", Str("combat")>>>>)
RespEmpty == Text("", Raised, FALSE, Raised, <<>>)
\* An object whose keys have drifted from the schema: two aliases of one
\* field, aliases only one of the two key lists knows, a null under the
\* first alias of a field, and a key no list knows.
DriftItems(none) ==
  <<<<"scene", Str("street")>>, <<"Scene", Str("combat")>>,
    <<"Tempo", Str("fast")>>, <<"character_gender", none>>,
    <<"gender", Str("male")>>, <<"note", Str("x")>>>>
RespDrift ==
  Text("{\"scene\": \"street\", \"Scene\": \"combat\", \"Tempo\": \"fast\", "
       \o "\"character_gender\": null, \"gender\": \"male\", \"note\": \"x\"}",
       Dict(DriftItems(Null)), TRUE, Raised, DriftItems(Str("null")))

Responses == {RespObject, RespNested, RespList, RespNumber, RespString,
              RespNull, RespLiteral, RespKeyValue, RespEmpty, RespDrift}

\* GeminiAPI._parse_response
_parse_responseM(text) ==
  IF text.json # Raised THEN text.json
  ELSE IF text.brace /\ text.literal.type = "dict" THEN text.literal
  ELSE Dict(<<<<"raw_text", Str(text.raw)>>>>)
_parse_response(text) ==
  IF text.json # Raised THEN text.json
  ELSE IF text.brace /\ text.literal.type = "dict" THEN text.literal
  ELSE IF text.pairs # <<>> THEN Dict(text.pairs)
  ELSE Dict(<<<<"raw_text", Str(text.raw)>>>>)

\* result.get(...) in analyze_video: only a dict has .get
HasGet(result) == result.type = "dict"

\* What the provider does during one analyze_video: whether the file is
\* there and the upload goes through, the file state wait_for_processing
\* ends on, and the text send_message returns (Raised: a transport error).
\* A step that is not reached has "none".
Provider(upload, state, invoke) ==
  [upload |-> upload, state |-> state, invoke |-> invoke]
Providers(responses) ==
  {Provider(u, "none", Raised) : u \in {"FileNotFoundError", "transport error"}}
  \cup {Provider("uploaded", st, Raised) :
          st \in {"FAILED", "unexpected state", "TimeoutError"}}
  \cup {Provider("uploaded", "ACTIVE", text) : text \in responses \cup {Raised}}

\* GeminiAPI.analyze_video: the result or the exception, the provider
\* calls issued, in order, and response.text when there was a response.
analyze_video(provider) ==
  IF provider.upload # "uploaded"
    THEN [raised |-> TRUE, result |-> Raised, issued |-> <<"upload">>,
          text |-> <<>>]
  ELSE IF provider.state # "ACTIVE"
    THEN [raised |-> TRUE, result |-> Raised,
          issued |-> <<"upload", "awaitReady">>, text |-> <<>>]
  ELSE IF provider.invoke = Raised
    THEN [raised |-> TRUE, result |-> Raised,
          issued |-> <<"upload", "awaitReady", "invoke">>, text |-> <<>>]
  ELSE LET result == _parse_response(provider.invoke) IN
       [raised |-> ~HasGet(result), result |-> result,
        issued |-> <<"upload", "awaitReady", "invoke">>,
        text |-> <<provider.invoke.raw>>]

HasKey(items, key) == \E i \in 1..Len(items) : items[i][1] = key
Get(items, key) == items[CHOOSE i \in 1..Len(items) : items[i][1] = key][2]
Truthy(v) ==
  CASE v.t = "str" -> v.s # ""
    [] v.t = "list" -> v.s # "[]"
    [] v.t = "null" -> FALSE
    [] OTHER -> TRUE

\* GeminiAPI.extract_tags; the tag f"{prefix}:{value}" is <<prefix, value>>.
RECURSIVE FirstTruthy(_, _)
FirstTruthy(items, keys) ==
  IF keys = <<>> THEN <<>>
  ELSE IF HasKey(items, Head(keys)) /\ Truthy(Get(items, Head(keys)))
    THEN <<Get(items, Head(keys)).s>>
  ELSE FirstTruthy(items, Tail(keys))

TagForM(prefix, found) == IF found = <<>> THEN <<>> ELSE <<<<"tag", found[1]>>>>
TagFor(prefix, found) == IF found = <<>> THEN <<>> ELSE <<<<prefix, found[1]>>>>

extract_tags(result) ==
  LET d == result.items IN
    TagFor("scene", FirstTruthy(d, <<"Appropriate Scene", "scene", "Scene",
                                     "appropriate_scene">>))
    \o TagFor("tempo", FirstTruthy(d, <<"Tempo Speed", "tempo", "Speed",
                                        "tempo_speed">>))
    \o TagFor("intensity", FirstTruthy(d, <<"Intensity Force", "intensity",
                                            "Force", "intensity_force">>))
    \o TagFor("loopable", FirstTruthy(d, <<"Loopable", "loopable", "can_loop",
                                           "IsLoopable">>))
    \o TagFor("gender", FirstTruthy(d, <<"character_gender">>))
    \o TagFor("age", FirstTruthy(d, <<"character_age_group">>))
    \o TagFor("body", FirstTruthy(d, <<"character_body_type">>))

\* Database._extract_fields_from_result, for a dict
field_mapping ==
  [animation_name |-> <<"Name of AnimationFile", "Animation File Name",
                        "AnimationFileName", "animation_name", "filename">>,
   character_gender |-> <<"character_gender", "gender", "Gender",
                          "CharacterGender">>,
   character_age_group |-> <<"character_age_group", "age_group", "Age",
                             "AgeGroup">>,
   character_body_type |-> <<"character_body_type", "body_type", "BodyType",
                             "build">>,
   movement_description |-> <<"Overall Movement Description",
                              "movement_description", "Description",
                              "MovementDescription">>,
   initial_pose |-> <<"Initial Pose", "initial_pose", "StartPose",
                      "start_pose">>,
   final_pose |-> <<"Final Pose", "final_pose", "EndPose", "end_pose">>,
   appropriate_scene |-> <<"Appropriate Scene", "appropriate_scene", "Scene",
                           "scene">>,
   loopable |-> <<"Loopable", "loopable", "can_loop", "IsLoopable">>,
   tempo_speed |-> <<"Tempo Speed", "tempo_speed", "Tempo", "Speed">>,
   intensity_force |-> <<"Intensity Force", "intensity_force", "Intensity",
                         "Force">>,
   posture_detail |-> <<"Posture Detail", "posture_detail", "Posture",
                        "PostureDetails">>,
   param_01 |-> <<"param_01", "custom_param1", "CustomParam1", "param01">>,
   param_02 |-> <<"param_02", "custom_param2", "CustomParam2", "param02">>,
   param_03 |-> <<"param_03", "custom_param3", "CustomParam3", "param03">>]

RECURSIVE FirstPresentM(_, _)
FirstPresentM(items, keys) ==
  IF keys = <<>> THEN Null
  ELSE IF HasKey(items, Head(keys)) /\ Truthy(Get(items, Head(keys)))
    THEN Get(items, Head(keys))
  ELSE FirstPresentM(items, Tail(keys))
RECURSIVE FirstPresent(_, _)
FirstPresent(items, keys) ==
  IF keys = <<>> THEN Null
  ELSE IF HasKey(items, Head(keys)) THEN Get(items, Head(keys))
  ELSE FirstPresent(items, Tail(keys))

_extract_fields_from_result(result) ==
  [f \in DOMAIN field_mapping |-> FirstPresent(result.items, field_mapping[f])]

\* sqlite3 binds str and None; a list or dict parameter raises.
Bindable(v) == v.t \in {"str", "null"}

\* json.dumps(result, ensure_ascii=False): the text it writes for a dict of
\* strings, lists and None (no value here holds a character that JSON
\* escapes), kept with the items json.loads reads back from it.
ValueText(v) ==
  CASE v.t = "str" -> "\"" \o v.s \o "\""
    [] v.t = "list" -> v.j
    [] v.t = "null" -> "null"
RECURSIVE ItemsText(_)
ItemsText(items) ==
  IF items = <<>> THEN ""
  ELSE "\"" \o Head(items)[1] \o "\": " \o ValueText(Head(items)[2])
       \o (IF Tail(items) = <<>> THEN "" ELSE ", " \o ItemsText(Tail(items)))
json_dumps(result) ==
  [text |-> "{" \o ItemsText(result.items) \o "}", items |-> result.items]

\* Database.add_analysis_result
add_analysis_resultM(w, video_id, result, version) ==
  [w |-> w, ok |-> TRUE]
add_analysis_result(w, video_id, result, version) ==
  LET fields == _extract_fields_from_result(result) IN
  IF StoreRaises(w)
    THEN [w |-> AfterFault(w), ok |-> FALSE]
  ELSE IF \E f \in DOMAIN fields : ~Bindable(fields[f])
    THEN [w |-> w, ok |-> FALSE]
  ELSE [w |-> [w EXCEPT !.analysis_results = Append(@,
                 [video_id |-> video_id, result_json |-> json_dumps(result),
                  version |-> version, fields |-> fields,
                  created_at |-> w.now])],
        ok |-> TRUE]

\* The rows of analysis_results with this video_id; the id of a row is its
\* place in the table (AUTOINCREMENT, and no row is ever deleted).
AttemptIds(w, video_id) ==
  {i \in 1..Len(w.analysis_results) :
     w.analysis_results[i].video_id = video_id}

\* Database.get_latest_analysis_result: WHERE video_id = ? ORDER BY
\* created_at DESC LIMIT 1.  The ids it can return (0: None): a row of the
\* Video that no other row of the Video is newer than; among rows with the
\* same created_at SQL leaves the order open (SQLite 3.40 gives the one
\* inserted first).
get_latest_analysis_result(w, video_id) ==
  LET ids == AttemptIds(w, video_id) IN
  IF ids = {} THEN {0}
  ELSE {i \in ids : \A j \in ids :
          w.analysis_results[j].created_at <= w.analysis_results[i].created_at}

\* result_json[key] = value on a dict
Put(items, key, value) ==
  IF HasKey(items, key)
    THEN [i \in 1..Len(items) |->
            IF items[i][1] = key THEN <<key, value>> ELSE items[i]]
    ELSE Append(items, <<key, value>>)

\* DatabaseManager.update_character_info of the list application, which
\* opens the same database file: the result_json of the first row of the
\* Video (fetchone) gets the three character keys and is written to every
\* row of the Video (UPDATE ... WHERE video_id = ?).
update_character_info(w, video_id, gender, age_group, body_type) ==
  LET ids == AttemptIds(w, video_id) IN
  IF ids = {} THEN w
  ELSE LET first == CHOOSE i \in ids : \A j \in ids : i <= j
           row == w.analysis_results[first]
           result_json == Put(Put(Put(row.result_json.items,
                                      "character_gender", Str(gender)),
                                  "character_age_group", Str(age_group)),
                              "character_body_type", Str(body_type))
       IN [w EXCEPT !.analysis_results =
             [i \in 1..Len(@) |->
                IF i \in ids
                  THEN [@[i] EXCEPT !.result_json =
                          json_dumps(Dict(result_json))]
                  ELSE @[i]]]

\* Database.add_tags: all rows in one transaction
add_tags(w, video_id, new_tags) ==
  IF StoreRaises(w)
    THEN [w |-> AfterFault(w), ok |-> FALSE]
  ELSE [w |-> [w EXCEPT !.tags = @ \o
                 [i \in 1..Len(new_tags) |->
                    [video_id |-> video_id, tag |-> new_tags[i],
                     source |-> "auto"]]],
        ok |-> TRUE]

\* ---------------------------------------- GeminiAPI.wait_for_processing
retry_count == 30               \* polls of genai.get_file
retry_delay == 5                \* seconds slept after a poll

\* file.state.name as genai.get_file reports it; "transport error" stands
\* for get_file raising.
FileStates == {"PROCESSING", "ACTIVE", "FAILED", "STATE_UNSPECIFIED",
               "transport error"}

\* One analyze_video call on the executor thread, provider call by provider
\* call.  at is the statement analyze_video is at ("return", "raise": it
\* has ended), issued the calls made so far, upload what upload_video gave,
\* invoke what send_message gave.  Of its wait_for_processing call: pc its
\* position, attempt the loop variable, polls the get_file calls issued,
\* slept the seconds spent in time.sleep, last the state the latest poll
\* saw, outcome what the call returned or raised.
WaitCall == [pc |-> "idle", attempt |-> 0, polls |-> 0, slept |-> 0,
             last |-> "none", outcome |-> "none", at |-> "upload_video",
             issued |-> <<>>, upload |-> "none", invoke |-> "none"]

\* range(retry_count) is used up
ExhaustedM(attempt) == attempt > retry_count
Exhausted(attempt) == attempt >= retry_count

\* video_file = self.upload_video(video_path): the file, or the exception
\* of the missing path or of genai.upload_file, logged and raised again.
UploadOutcomes == {"uploaded", "FileNotFoundError", "transport error"}
upload_videoM(outcome) ==
  /\ wait.at = "upload_video"
  /\ wait' = [wait EXCEPT !.issued = Append(@, "upload"),
                          !.upload = outcome,
                          !.at = "wait_for_processing"]
  /\ UNCHANGED <<videos, analysis_results, tags, processing, cancel_requested,
                 calls, batch, loop_queue, returned, store_faults, now,
                 store_call, app>>
upload_video(outcome) ==
  /\ wait.at = "upload_video"
  /\ wait' = [wait EXCEPT !.issued = Append(@, "upload"),
                          !.upload = outcome,
                          !.at = IF outcome = "uploaded"
                                   THEN "wait_for_processing" ELSE "raise"]
  /\ UNCHANGED <<videos, analysis_results, tags, processing, cancel_requested,
                 calls, batch, loop_queue, returned, store_faults, now,
                 store_call, app>>

\* analyze_video calls wait_for_processing(video_file)
wait_for_processing ==
  /\ wait.at = "wait_for_processing"
  /\ wait.pc = "idle"
  /\ wait' = [wait EXCEPT !.pc = "get_file",
                          !.issued = Append(@, "awaitReady")]
  /\ UNCHANGED <<videos, analysis_results, tags, processing, cancel_requested,
                 calls, batch, loop_queue, returned, store_faults, now,
                 store_call, app>>

\* One turn of the for loop: get_file, the tests of file.state.name and,
\* for PROCESSING, time.sleep(retry_delay).
get_fileM(state) ==
  /\ wait.pc = "get_file"
  /\ ~Exhausted(wait.attempt)
  /\ LET polled == [wait EXCEPT !.polls = @ + 1, !.last = state] IN
       wait' = CASE state = "ACTIVE" ->
                      [polled EXCEPT !.pc = "done", !.outcome = "True",
                                     !.at = "generate_prompt"]
                 [] state = "transport error" ->
                      [polled EXCEPT !.pc = "done", !.outcome = "Exception",
                                     !.at = "raise"]
                 [] state \notin {"ACTIVE", "FAILED", "PROCESSING",
                                  "transport error"} ->
                      [polled EXCEPT !.pc = "done", !.outcome = "Exception",
                                     !.at = "raise"]
                 [] OTHER ->
                      [polled EXCEPT !.attempt = @ + 1,
                                     !.slept = @ + retry_delay]
  /\ UNCHANGED <<videos, analysis_results, tags, processing, cancel_requested,
                 calls, batch, loop_queue, returned, store_faults, now,
                 store_call, app>>
get_file(state) ==
  /\ wait.pc = "get_file"
  /\ ~Exhausted(wait.attempt)
  /\ LET polled == [wait EXCEPT !.polls = @ + 1, !.last = state] IN
       wait' = CASE state = "ACTIVE" ->
                      [polled EXCEPT !.pc = "done", !.outcome = "True",
                                     !.at = "generate_prompt"]
                 [] state = "FAILED" ->
                      [polled EXCEPT !.pc = "done", !.outcome = "Exception",
                                     !.at = "raise"]
                 [] state = "transport error" ->
                      [polled EXCEPT !.pc = "done", !.outcome = "Exception",
                                     !.at = "raise"]
                 [] state \notin {"ACTIVE", "FAILED", "PROCESSING",
                                  "transport error"} ->
                      [polled EXCEPT !.pc = "done", !.outcome = "Exception",
                                     !.at = "raise"]
                 [] OTHER ->
                      [polled EXCEPT !.attempt = @ + 1,
                                     !.slept = @ + retry_delay]
  /\ UNCHANGED <<videos, analysis_results, tags, processing, cancel_requested,
                 calls, batch, loop_queue, returned, store_faults, now,
                 store_call, app>>

\* The loop ran out: raise TimeoutError
raise_TimeoutError ==
  /\ wait.pc = "get_file"
  /\ Exhausted(wait.attempt)
  /\ wait' = [wait EXCEPT !.pc = "done", !.outcome = "TimeoutError",
                          !.at = "raise"]
  /\ UNCHANGED <<videos, analysis_results, tags, processing, cancel_requested,
                 calls, batch, loop_queue, returned, store_faults, now,
                 store_call, app>>

\* prompt = self.prompt_manager.generate_prompt(video_path); an empty
\* prompt raises ValueError.
generate_prompt(prompt) ==
  /\ wait.at = "generate_prompt"
  /\ wait' = [wait EXCEPT !.at = IF prompt THEN "send_message" ELSE "raise"]
  /\ UNCHANGED <<videos, analysis_results, tags, processing, cancel_requested,
                 calls, batch, loop_queue, returned, store_faults, now,
                 store_call, app>>

\* response = chat.send_message([video_file, prompt]): the response, or the
\* exception of the transport.
InvokeOutcomes == {"response", "transport error"}
send_message(outcome) ==
  /\ wait.at = "send_message"
  /\ wait' = [wait EXCEPT !.issued = Append(@, "invoke"),
                          !.invoke = outcome,
                          !.at = IF outcome = "response"
                                   THEN "return" ELSE "raise"]
  /\ UNCHANGED <<videos, analysis_results, tags, processing, cancel_requested,
                 calls, batch, loop_queue, returned, store_faults, now,
                 store_call, app>>

\* -------------------------------------------------------- VideoProcessor
NoResult == NonDict("none")

\* One process_video coroutine.  origin: who awaits it ("wrapper":
\* MainWindow.process_video, "direct": on_reprocess, "batch":
\* process_multiple_videos, with index its place in the list).  pc: where it
\* is suspended.  path, vid (video_id) and result are its local variables.
\* The other fields record what the call has done: waited in the loop,
\* entered the lane, got a text from the provider (invoked, and the text,
\* response.text), had its cancellation flag set when analyze_video
\* returned (cancel_seen), the
\* terminal status it wrote, the callbacks it made, and the tags and
\* analysis_results rows it inserted.
Call(origin, path, index) ==
  [origin |-> origin, path |-> path, index |-> index, vid |-> 0,
   pc |-> "start", waited |-> FALSE, admitted |-> FALSE, invoked |-> FALSE,
   cancel_seen |-> FALSE, outcome |-> "none", callbacks |-> <<>>,
   n_tags |-> 0, n_results |-> 0, result |-> NoResult, text |-> <<>>,
   config |-> <<>>]

\* A coroutine that has ended holds nothing.
Ended == [Call("", <<>>, 0) EXCEPT !.pc = "done"]

InLane == {"analyze_video", "add_tags", "add_analysis_result"}

\* status_callback(video_id, status), progress_callback(video_id, progress)
status_callback(w, c, status) ==
  [w EXCEPT !.calls[c].callbacks = Append(@, <<"status", status>>)]
progress_callbackM(w, c, progress) ==
  [w EXCEPT !.calls[c].callbacks = Append(@, <<"progress", 100>>)]
progress_callback(w, c, progress) ==
  [w EXCEPT !.calls[c].callbacks = Append(@, <<"progress", progress>>)]

\* len(self._processing) > 0
LaneBusyM(lane) == FALSE
LaneBusy(lane) == Cardinality(lane) > 0

\* if video_id in self._processing: return False
AlreadyProcessingM(w, video_id) == FALSE
AlreadyProcessing(w, video_id) == video_id \in w.processing

\* while len(self._processing) > 0: the condition of the wait loop
MustWaitM(lane) == FALSE
MustWait(lane) == Cardinality(lane) > 0

\* video_id in self._cancel_requested
CancelObservedM(w, video_id) == FALSE
CancelObserved(w, video_id) == video_id \in w.cancel_requested

\* How a process_video call ends: return True, return False, or an
\* exception reaching the outer handler, which logs it and returns False.
ProcessVideoExitM(exit) ==
  CASE exit = "true" -> [ret |-> "True", raised |-> FALSE]
    [] exit = "false" -> [ret |-> "False", raised |-> FALSE]
    [] exit = "exception" -> [ret |-> "none", raised |-> TRUE]
ProcessVideoExit(exit) ==
  CASE exit = "true" -> [ret |-> "True", raised |-> FALSE]
    [] exit = "false" -> [ret |-> "False", raised |-> FALSE]
    [] exit = "exception" -> [ret |-> "False", raised |-> FALSE]

\* What is known of call c when it ends in w: its record, how it ended
\* (exit), what the caller got (ret, or raised), whether
\* MainWindow.process_video emitted error_occurred for it, and the lane,
\* the cancellation flags and the persisted status of its Video at that
\* moment.
Summary(w, c, exit, e) ==
  LET call == w.calls[c] IN
  [call |-> c, origin |-> call.origin, path |-> call.path,
   index |-> call.index, vid |-> call.vid, waited |-> call.waited,
   admitted |-> call.admitted, invoked |-> call.invoked,
   cancel_seen |-> call.cancel_seen, outcome |-> call.outcome,
   callbacks |-> call.callbacks, n_tags |-> call.n_tags,
   n_results |-> call.n_results, text |-> call.text,
   config |-> call.config, exit |-> exit,
   ret |-> e.ret,
   raised |-> e.raised,
   error_occurred |-> (call.origin = "wrapper" /\ e.raised),
   processing |-> w.processing, cancel_requested |-> w.cancel_requested,
   status |-> IF call.vid \in VideoIds(w) THEN w.videos[call.vid].status
              ELSE "none"]

RECURSIVE Enter(_, _, _, _)

\* process_multiple_videos: the for loop, up to the next suspension
batch_loop(w) ==
  IF w.batch.next > Len(w.batch.paths)
    THEN [w EXCEPT !.batch.pc = "done"]
    ELSE Enter([w EXCEPT !.batch.next = @ + 1], "batch",
               w.batch.paths[w.batch.next], w.batch.next)

\* The end of call c and the continuation of the coroutine awaiting it.
Finish(w, c, exit) ==
  LET e == ProcessVideoExit(exit)
      w1 == [w EXCEPT !.calls[c] = Ended,
                      !.returned = Append(@, Summary(w, c, exit, e))]
  IN IF w.calls[c].origin = "batch"
       THEN IF e.raised
              THEN [w1 EXCEPT !.batch.pc = "raised"]
              ELSE batch_loop([w1 EXCEPT !.batch.results = Append(@, e.ret)])
       ELSE w1

\* finally: self._processing.remove(video_id)
Release(w, c) == [w EXCEPT !.processing = @ \ {w.calls[c].vid}]

\* The inner handler: status ERROR, notify, re-raise; then the finally.
ExceptM(w, c) == Finish(Release(w, c), c, "exception")
Except(w, c) ==
  LET vid == w.calls[c].vid
      u == update_video_status(w, vid, ERROR, NoProgress)
      w1 == IF u.ok
              THEN [status_callback(u.w, c, ERROR)
                      EXCEPT !.calls[c].outcome = ERROR]
              ELSE u.w
  IN Finish(Release(w1, c), c, "exception")

\* Admission: lane entry, status PROCESSING with progress 0, callbacks;
\* then analyze_video is handed to the executor.
Admit(w, c) ==
  LET vid == w.calls[c].vid
      w1 == [w EXCEPT !.processing = @ \cup {vid},
                      !.calls[c].admitted = TRUE]
      u == update_video_status(w1, vid, PROCESSING, 0)
  IN IF ~u.ok
       THEN Finish(u.w, c, "exception")
       ELSE [progress_callback(status_callback(u.w, c, PROCESSING), c, 0)
               EXCEPT !.calls[c].pc = "analyze_video"]

\* The lane is taken: status PENDING is written and notified, once, before
\* the wait loop.
MarkPendingM(w, c, video_id) ==
  LET u == update_video_status(w, video_id, PENDING, NoProgress) IN
    [w |-> IF u.ok
             THEN status_callback(status_callback(u.w, c, PENDING), c, PENDING)
             ELSE u.w,
     ok |-> u.ok]
MarkPending(w, c, video_id) ==
  LET u == update_video_status(w, video_id, PENDING, NoProgress) IN
    [w |-> IF u.ok THEN status_callback(u.w, c, PENDING) ELSE u.w,
     ok |-> u.ok]

\* process_video from its first line to its first suspension or return
Enter(w, origin, path, index) ==
  LET c == Len(w.calls) + 1
      a == add_video([w EXCEPT !.calls = Append(@, Call(origin, path, index))],
                     path)
      w1 == [a.w EXCEPT !.calls[c].vid = a.id]
  IN IF ~a.ok THEN Finish(a.w, c, "exception")
     ELSE IF AlreadyProcessing(w1, a.id) THEN Finish(w1, c, "false")
     ELSE IF LaneBusy(w1.processing)
       THEN LET u == MarkPending(w1, c, a.id)
            IN IF ~u.ok
                 THEN Finish(u.w, c, "exception")
                 ELSE [u.w EXCEPT !.calls[c].pc = "waiting",
                                  !.calls[c].waited = TRUE]
     ELSE Admit(w1, c)

\* After analyze_video returned result: the cancellation checkpoint, then
\* progress 50 and add_tags handed to the executor.
AfterAnalysis(w, c, result) ==
  LET vid == w.calls[c].vid IN
  IF CancelObserved(w, vid)
    THEN LET u == update_video_status(w, vid, CANCELED, NoProgress)
         IN IF ~u.ok
              THEN Except(u.w, c)
              ELSE Finish(Release([status_callback(u.w, c, CANCELED)
                                     EXCEPT !.cancel_requested = @ \ {vid},
                                            !.calls[c].outcome = CANCELED],
                                  c), c, "false")
    ELSE LET u == update_video_status(w, vid, PROCESSING, 50)
         IN IF ~u.ok
              THEN Except(u.w, c)
              ELSE [progress_callback(status_callback(u.w, c, PROCESSING),
                                      c, 50)
                      EXCEPT !.calls[c].pc = "add_tags",
                             !.calls[c].result = result]

\* -------------------------------------------------------------- actions
\* GeminiAPI._setup_api: without GOOGLE_API_KEY it raises ValueError.
_setup_apiM(api_key) == TRUE
_setup_api(api_key) == api_key

\* The tables are empty and nothing has been asked of the scheduler.
Fresh ==
  /\ videos = <<>>
  /\ analysis_results = <<>>
  /\ tags = <<>>
  /\ processing = {}
  /\ cancel_requested = {}
  /\ calls = <<>>
  /\ batch = [pc |-> "idle", paths |-> <<>>, next |-> 1, results |-> <<>>]
  /\ loop_queue = <<>>
  /\ returned = <<>>
  /\ store_faults = 0
  /\ wait = WaitCall
  /\ now = 0
  /\ store_call = NoCall

\* The state after MainWindow.__init__: the VideoProcessor is constructed,
\* which takes a GOOGLE_API_KEY.
Init ==
  Fresh /\ app = [api_key |-> TRUE, pc |-> "running",
                  current_prompt_config |-> "default"]

\* The state when main starts, with or without GOOGLE_API_KEY.
InitMain ==
  Fresh /\ app \in {[api_key |-> k, pc |-> "main",
                      current_prompt_config |-> "default"] : k \in BOOLEAN}

\* main: MainWindow() constructs the Database, which creates the tables,
\* and VideoProcessor(self.db), whose __init__ constructs GeminiAPI();
\* an exception of the construction is logged and ends the process with
\* sys.exit(1) before the window, its handlers and the loop exist.
main ==
  /\ app.pc = "main"
  /\ app' = [app EXCEPT !.pc = IF _setup_api(app.api_key) THEN "running"
                                ELSE "exit"]
  /\ returned' = <<>>
  /\ UNCHANGED <<videos, analysis_results, tags, processing, cancel_requested,
                 calls, batch, loop_queue, store_faults, wait, now, store_call>>

RECURSIVE Queued(_)
Queued(q) == IF q = <<>> THEN 0 ELSE Len(Head(q).paths) + Queued(Tail(q))

\* process_video calls not yet made but already asked for
Outstanding ==
  Queued(loop_queue)
  + (IF batch.pc = "running" THEN Len(batch.paths) - batch.next + 1 ELSE 0)
Budget == MaxCalls - Len(calls) - Outstanding

\* MainWindow.process_dropped_files for one file: a path already stored is
\* skipped; otherwise the video is added on the GUI thread and, with auto
\* processing on, MainWindow.process_video is handed to the loop.  A store
\* error is caught and shown.  Paths are opaque, so they are numbered in
\* the order in which they are first dropped.
process_dropped_files(path, auto_process) ==
  /\ path = <<"video", Len(videos) + 1>>
  /\ ~PathPresent(World, path)
  /\ auto_process => Budget >= 1 /\ Len(loop_queue) < MaxQueue
  /\ LET a == add_video(World, path) IN
       /\ Becomes(a.w)
       /\ loop_queue' = IF a.ok /\ auto_process
                          THEN Append(loop_queue, [origin |-> "wrapper",
                                                   paths |-> <<path>>])
                          ELSE loop_queue

\* MainWindow.on_reprocess: set_video_status(PENDING) on the GUI thread
\* (a store error is caught and shown), then process_video is handed to
\* the loop.
on_reprocess(v) ==
  /\ Budget >= 1
  /\ Len(loop_queue) < MaxQueue
  /\ v \in 1..Len(videos)
  /\ Becomes(update_video_status(World, v, PENDING, NoProgress).w)
  /\ loop_queue' = Append(loop_queue,
                          [origin |-> "direct", paths |-> <<videos[v].file_path>>])

\* MainWindow.on_batch_process: the paths of the selected videos (ids, each
\* once) go to process_multiple_videos on the loop.  A behaviour has one
\* batch; the other calls come from dropped files and Run clicks.
on_batch_process(ids) ==
  /\ batch.pc = "idle"
  /\ \A i \in 1..Len(loop_queue) : loop_queue[i].origin # "batch"
  /\ Budget >= Len(ids)
  /\ Len(loop_queue) < MaxQueue
  /\ \A i, j \in 1..Len(ids) : ids[i] = ids[j] => i = j
  /\ loop_queue' = Append(loop_queue,
       [origin |-> "batch",
        paths |-> [i \in 1..Len(ids) |-> videos[ids[i]].file_path]])
  /\ returned' = <<>>
  /\ UNCHANGED <<videos, analysis_results, tags, processing, cancel_requested,
                 calls, batch, store_faults, wait, now, store_call, app>>

\* VideoProcessor.cancel_processing, called by on_cancel_process
cancel_processingM(v) ==
  /\ v \in processing
  /\ cancel_requested' = cancel_requested \cup {v}
  /\ videos' = [videos EXCEPT ![v].status = CANCELED]
  /\ returned' = <<>>
  /\ store_call' = NoCall
  /\ UNCHANGED <<analysis_results, tags, processing, calls, batch, loop_queue,
                 store_faults, wait, now, app>>
cancel_processing(v) ==
  /\ v \in processing
  /\ cancel_requested' = cancel_requested \cup {v}
  /\ returned' = <<>>
  /\ UNCHANGED <<videos, analysis_results, tags, processing, calls, batch,
                 loop_queue, store_faults, wait, now, store_call, app>>

\* The loop starts the coroutine at the head of its queue.
LoopStart ==
  /\ loop_queue # <<>>
  /\ loop_queue' = Tail(loop_queue)
  /\ LET h == Head(loop_queue) IN
       IF h.origin = "batch"
         THEN Becomes(batch_loop([World EXCEPT !.batch.pc = "running",
                                               !.batch.paths = h.paths]))
         ELSE Becomes(Enter(World, h.origin, h.paths[1], 0))

\* A waiting coroutine wakes from asyncio.sleep(5) and finds the lane free.
WaitTick(c) ==
  /\ calls[c].pc = "waiting"
  /\ ~MustWait(processing)
  /\ Becomes(Admit(World, c))
  /\ UNCHANGED loop_queue

\* analyze_video on the executor (upload_video, wait_for_processing,
\* send_message, _parse_response, the result.get(...) log lines), then the
\* coroutine resumes.  provider is what the provider does in this call.
AnalyzeVideo(c, providers) ==
  /\ calls[c].pc = "analyze_video"
  /\ \E r \in {analyze_video(provider) : provider \in providers} :
       LET w == [World EXCEPT
                  !.calls[c].config = <<app.current_prompt_config>>,
                  !.calls[c].invoked = (r.result # Raised),
                  !.calls[c].text = r.text,
                  !.calls[c].cancel_seen =
                     (~r.raised /\ calls[c].vid \in cancel_requested)]
       IN IF r.raised
            THEN Becomes(Except(w, c))
            ELSE Becomes(AfterAnalysis(w, c, r.result))
  /\ UNCHANGED loop_queue

\* add_tags on the executor, then add_analysis_result is handed to it
AddTags(c) ==
  /\ calls[c].pc = "add_tags"
  /\ LET new_tags == extract_tags(calls[c].result)
         a == add_tags(World, calls[c].vid, new_tags)
     IN IF a.ok
          THEN Becomes([a.w EXCEPT !.calls[c].pc = "add_analysis_result",
                                   !.calls[c].n_tags = Len(new_tags)])
          ELSE Becomes(Except(a.w, c))
  /\ UNCHANGED loop_queue

\* add_analysis_result on the executor, then status FIX with progress 100
AddAnalysisResult(c) ==
  /\ calls[c].pc = "add_analysis_result"
  /\ LET vid == calls[c].vid
         a == add_analysis_result(World, vid, calls[c].result, Version)
         w1 == [a.w EXCEPT !.calls[c].n_results = 1]
         u == update_video_status(w1, vid, FIX, 100)
     IN IF ~a.ok THEN Becomes(Except(a.w, c))
        ELSE IF ~u.ok THEN Becomes(Except(u.w, c))
        ELSE Becomes(Finish(Release(
               [progress_callback(status_callback(u.w, c, FIX), c, 100)
                  EXCEPT !.calls[c].outcome = FIX], c), c, "true"))
  /\ UNCHANGED loop_queue

\* The environment makes the next Job Store call raise.
StoreFault ==
  /\ store_faults < MaxFaults
  /\ store_faults' = store_faults + 1
  /\ returned' = <<>>
  /\ UNCHANGED <<videos, analysis_results, tags, processing, cancel_requested,
                 calls, batch, loop_queue, wait, now, store_call, app>>

CallIds == 1..Len(calls)

\* The scheduler: every caller of process_video, every provider failure,
\* and a provider whose text is either the schema's object or a JSON list.
Next ==
  \/ \E path \in Paths : \E auto_process \in BOOLEAN :
       process_dropped_files(path, auto_process)
  \/ \E v \in 1..NumPaths : on_reprocess(v)
  \/ \E n \in 1..MaxBatch : \E ids \in [1..n -> 1..Len(videos)] :
       on_batch_process(ids)
  \/ \E v \in 1..NumPaths : cancel_processing(v)
  \/ LoopStart
  \/ \E c \in CallIds : WaitTick(c)
  \/ \E c \in CallIds : AnalyzeVideo(c, Providers({RespObject, RespList}))
  \/ \E c \in CallIds : AddTags(c)
  \/ \E c \in CallIds : AddAnalysisResult(c)

\* The pipeline with a Job Store whose calls succeed.
Spec == Init /\ [][Next]_vars

\* The pipeline with a Job Store whose calls can raise.
NextFault == Next \/ StoreFault
SpecFault == Init /\ [][NextFault]_vars

\* One job at a time, dropped with auto processing on, and a provider that
\* can answer with any of the texts of Responses.
Idle == loop_queue = <<>> /\ \A c \in CallIds : calls[c].pc = "done"
NextResponses ==
  \/ \E path \in Paths : Idle /\ process_dropped_files(path, TRUE)
  \/ \E v \in 1..NumPaths : Idle /\ on_reprocess(v)
  \/ \E v \in 1..NumPaths : cancel_processing(v)
  \/ LoopStart
  \/ \E c \in CallIds : AnalyzeVideo(c, Providers(Responses))
  \/ \E c \in CallIds : AddTags(c)
  \/ \E c \in CallIds : AddAnalysisResult(c)
SpecResponses == Init /\ [][NextResponses]_vars

\* The process from the start of main: the handlers of the window exist
\* once main has constructed it.
NextMain ==
  \/ main
  \/ app.pc = "running" /\ NextResponses
SpecMain == InitMain /\ [][NextMain]_vars

\* process_video reaches add_analysis_result for Video v with the parse of
\* a provider text.
StoreAppend(v, text) ==
  /\ v \in 1..Len(videos)
  /\ Len(analysis_results) < MaxRows
  /\ Becomes(add_analysis_result(World, v, _parse_response(text), Version).w)
  /\ UNCHANGED loop_queue

\* A second passes on the clock behind CURRENT_TIMESTAMP.
ClockTick ==
  /\ now < MaxTime
  /\ now' = now + 1
  /\ returned' = <<>>
  /\ store_call' = NoCall
  /\ UNCHANGED <<videos, analysis_results, tags, processing, cancel_requested,
                 calls, batch, loop_queue, store_faults, wait, app>>

\* ExportManager asks for the latest result of Video v.
ExportLatest(v) ==
  /\ v \in 1..Len(videos)
  /\ \E id \in get_latest_analysis_result(World, v) :
       store_call' = [op |-> "get_latest_analysis_result", video_id |-> v,
                      id |-> id]
  /\ returned' = <<>>
  /\ UNCHANGED <<videos, analysis_results, tags, processing, cancel_requested,
                 calls, batch, loop_queue, store_faults, wait, now, app>>

\* The list application saves edited character information of Video v.
EditCharacterInfo(v, gender) ==
  /\ v \in 1..Len(videos)
  /\ Becomes(update_character_info(World, v, gender, "adult", "average"))
  /\ UNCHANGED loop_queue

\* The Job Store under its callers: videos are added, attempts appended as
\* jobs succeed, the latest attempt is read, and the list application
\* edits character information.
NextStore ==
  \/ \E path \in Paths : process_dropped_files(path, FALSE)
  \/ \E v \in 1..NumPaths : \E text \in {RespObject, RespKeyValue} :
       StoreAppend(v, text)
  \/ ClockTick
  \/ \E v \in 1..NumPaths : ExportLatest(v)
  \/ \E v \in 1..NumPaths : \E gender \in {"male", "female"} :
       EditCharacterInfo(v, gender)
SpecStore == Init /\ [][NextStore]_vars

\* MainWindow.set_video_status: update_video_status without a progress;
\* an exception is caught and shown.
set_video_status(v, status) ==
  /\ v \in 1..Len(videos)
  /\ LET u == update_video_status(World, v, status, NoProgress) IN
       Becomes([u.w EXCEPT !.store_call =
                  [op |-> "update_video_status", video_id |-> v,
                   status |-> status, raised |-> ~u.ok,
                   before |-> videos[v]]])
  /\ UNCHANGED loop_queue

\* The pipeline, one job at a time, with the clock and with
\* set_video_status called with a status of the enumeration and with a
\* string that is none of them.
StatusInputs == {PENDING, "COMPLETED"}
NextStatus ==
  \/ \E path \in Paths : Idle /\ process_dropped_files(path, TRUE)
  \/ \E v \in 1..NumPaths : cancel_processing(v)
  \/ LoopStart
  \/ \E c \in CallIds : AnalyzeVideo(c, Providers({RespObject}))
  \/ \E c \in CallIds : AddTags(c)
  \/ \E c \in CallIds : AddAnalysisResult(c)
  \/ ClockTick
  \/ \E v \in 1..NumPaths : \E status \in StatusInputs :
       set_video_status(v, status)
SpecStatus == Init /\ [][NextStatus]_vars

\* MainWindow.on_prompt_changed: the prompt combo box changed and the
\* configuration loads; VideoProcessor.set_prompt_config keeps its name.
PromptConfigs == {"default", "motion"}
on_prompt_changed(config_name) ==
  /\ config_name # app.current_prompt_config
  /\ app' = [app EXCEPT !.current_prompt_config = config_name]
  /\ returned' = <<>>
  /\ UNCHANGED <<videos, analysis_results, tags, processing, cancel_requested,
                 calls, batch, loop_queue, store_faults, wait, now, store_call>>

\* The pipeline with a prompt combo box that the user can change at any
\* time: files dropped with auto processing on and the Run button.
NextPrompt ==
  \/ \E path \in Paths : process_dropped_files(path, TRUE)
  \/ \E v \in 1..NumPaths : on_reprocess(v)
  \/ \E config_name \in PromptConfigs : on_prompt_changed(config_name)
  \/ LoopStart
  \/ \E c \in CallIds : WaitTick(c)
  \/ \E c \in CallIds : AnalyzeVideo(c, Providers({RespObject}))
  \/ \E c \in CallIds : AddTags(c)
  \/ \E c \in CallIds : AddAnalysisResult(c)
SpecPrompt == Init /\ [][NextPrompt]_vars

\* MainWindow.on_cancel_process for one selected row: it calls
\* cancel_processing(video_id) whatever the state of the Video, and
\* cancel_processing records the request when the Video is in _processing.
on_cancel_processM(v) ==
  /\ v \in DOMAIN videos
  /\ cancel_requested' = cancel_requested \cup {v}
  /\ store_call' = [op |-> "cancel_processing", video_id |-> v]
  /\ returned' = <<>>
  /\ UNCHANGED <<videos, analysis_results, tags, processing, calls, batch,
                 loop_queue, store_faults, wait, now, app>>
on_cancel_process(v) ==
  /\ v \in DOMAIN videos
  /\ cancel_requested' = IF v \in processing THEN cancel_requested \cup {v}
                         ELSE cancel_requested
  /\ store_call' = [op |-> "cancel_processing", video_id |-> v]
  /\ returned' = <<>>
  /\ UNCHANGED <<videos, analysis_results, tags, processing, calls, batch,
                 loop_queue, store_faults, wait, now, app>>

\* The pipeline with a Cancel button that can be pressed on any row.
NextCancel ==
  \/ \E path \in Paths : process_dropped_files(path, TRUE)
  \/ \E v \in 1..NumPaths : on_reprocess(v)
  \/ \E v \in 1..NumPaths : on_cancel_process(v)
  \/ LoopStart
  \/ \E c \in CallIds : WaitTick(c)
  \/ \E c \in CallIds : AnalyzeVideo(c, Providers({RespObject}))
  \/ \E c \in CallIds : AddTags(c)
  \/ \E c \in CallIds : AddAnalysisResult(c)
SpecCancel == Init /\ [][NextCancel]_vars

\* A coroutine that has returned is dropped: nobody keeps the future that
\* run_coroutine_threadsafe gave back.
IsLive(call) == call.pc # "done"
Discard ==
  /\ \E c \in CallIds : ~IsLive(calls[c])
  /\ calls' = SelectSeq(calls, IsLive)
  /\ returned' = <<>>
  /\ UNCHANGED <<videos, analysis_results, tags, processing, cancel_requested,
                 batch, loop_queue, store_faults, wait, now, store_call, app>>

\* The provider answers or fails; once MaxAttempts attempts are stored it
\* fails, which keeps the tables finite while jobs go on arriving.
LiveProviders ==
  IF Len(analysis_results) < MaxAttempts THEN Providers({RespObject})
  ELSE Providers({})

\* The pipeline for as long as the user goes on submitting: every provider
\* call and every store call returns, and the loop and the executor run
\* every step that stays possible (a sleeping waiter wakes every five
\* seconds, and goes on when it then finds the lane free).
NextLive ==
  \/ \E path \in Paths : process_dropped_files(path, TRUE)
  \/ \E v \in 1..NumPaths : on_reprocess(v)
  \/ LoopStart
  \/ \E c \in CallIds : WaitTick(c)
  \/ \E c \in CallIds : AnalyzeVideo(c, LiveProviders)
  \/ \E c \in CallIds : AddTags(c)
  \/ \E c \in CallIds : AddAnalysisResult(c)
  \/ Discard
SpecLive ==
  /\ Init /\ [][NextLive]_vars
  /\ WF_vars(LoopStart)
  /\ \A v \in 1..NumPaths :
       WF_vars(\E c \in CallIds : calls[c].vid = v /\ WaitTick(c))
  /\ WF_vars(\E c \in CallIds : AnalyzeVideo(c, LiveProviders))
  /\ WF_vars(\E c \in CallIds : AddTags(c))
  /\ WF_vars(\E c \in CallIds : AddAnalysisResult(c))

\* One analyze_video call on the executor thread, which runs it to its end:
\* upload_file, get_file, time.sleep and send_message return.
NextWait ==
  \/ \E outcome \in UploadOutcomes : upload_video(outcome)
  \/ wait_for_processing
  \/ \E state \in FileStates : get_file(state)
  \/ raise_TimeoutError
  \/ \E prompt \in BOOLEAN : generate_prompt(prompt)
  \/ \E outcome \in InvokeOutcomes : send_message(outcome)
SpecWait == Init /\ [][NextWait]_vars /\ WF_vars(NextWait)

\* ------------------------------------------------------------ properties
Live == {c \in CallIds : calls[c].pc # "done"}
Returned == {returned[i] : i \in 1..Len(returned)}
StatusOf(v) == videos[v].status

Terminal == {FIX, ERROR, CANCELED}
ValidTransition(from, to) ==
  \/ from = to
  \/ from = UNPROCESSED /\ to \in {PENDING, PROCESSING}
  \/ from = PENDING /\ to = PROCESSING
  \/ from = PROCESSING /\ to \in Terminal
  \/ from \in Terminal /\ to \in {PENDING, PROCESSING}

\* C2: the persisted status of every Video only moves along the lifecycle;
\* PROCESSING -> PENDING and PENDING -> terminal are never observed.
C2_ValidPath ==
  [][\A v \in 1..Len(videos) :
       ValidTransition(StatusOf(v), videos'[v].status)]_vars

\* C3: a call whose cancellation flag was set when analyze_video returned
\* ends with status CANCELED persisted and notified, returns False, has
\* the flag cleared and the lane released, and inserted no tags and no
\* analysis_results row.
C3_CancelAtCheckpoint ==
  \A r \in Returned :
    r.cancel_seen =>
      /\ r.outcome = CANCELED
      /\ r.callbacks[Len(r.callbacks)] = <<"status", CANCELED>>
      /\ r.ret = "False"
      /\ r.status = CANCELED
      /\ r.vid \notin r.cancel_requested
      /\ r.vid \notin r.processing
      /\ r.n_tags = 0
      /\ r.n_results = 0

\* C3 happens: a call has just ended at the checkpoint with the flag seen.
C3_Witness ==
  \E r \in Returned :
    r.cancel_seen /\ r.invoked /\ r.status = CANCELED

\* C4: there is at most one Video per file_path, and every process_video
\* call for a path works on the id of that one Video.
C4_OneVideoPerPath ==
  /\ \A i, j \in 1..Len(videos) :
       videos[i].file_path = videos[j].file_path => i = j
  /\ \A c \in Live :
       calls[c].vid # 0 => videos[calls[c].vid].file_path = calls[c].path
  /\ \A r \in Returned :
       r.vid # 0 => videos[r.vid].file_path = r.path

\* C4 happens: the same path has been submitted three times (dropped, then
\* run again twice) and both later calls hold the id of the first.
C4_Witness ==
  \E a, b \in Live :
    /\ a # b
    /\ calls[a].path = calls[b].path
    /\ calls[a].vid = calls[b].vid
    /\ calls[a].vid # 0

\* C5: when a call that added its video id to _processing ends, however it
\* ends, the id is no longer in _processing.
C5_LaneReleased ==
  \A r \in Returned : r.admitted => r.vid \notin r.processing

\* C6: admission is first in, first out: while a call is still held in the
\* wait loop, no call that started after it is in the lane.
C6_Fifo ==
  \A a, b \in Live :
    a < b /\ calls[a].pc = "waiting" => calls[b].pc \notin InLane

\* C7: a call whose provider returned a text, whatever the text, and which
\* was not cancelled ends with status FIX and one analysis_results row.
C7_MalformedNeverFails ==
  \A r \in Returned :
    r.invoked /\ ~r.cancel_seen =>
      r.outcome = FIX /\ r.n_results = 1 /\ r.ret = "True"

\* C8: a call whose upload, wait or send_message raised ends with status
\* ERROR written and notified, and inserted no tags and no analysis_results
\* row.
C8_ProviderFailure ==
  \A r \in Returned :
    r.admitted /\ ~r.invoked =>
      /\ r.outcome = ERROR
      /\ r.status = ERROR
      /\ r.callbacks[Len(r.callbacks)] = <<"status", ERROR>>
      /\ r.n_tags = 0
      /\ r.n_results = 0
      /\ r.vid \notin r.processing

\* C8 happens: a call admitted to the lane has just ended on a provider
\* failure.
C8_Witness ==
  \E r \in Returned :
    r.admitted /\ ~r.invoked /\ r.exit = "exception" /\ r.outcome = ERROR

\* C9: an exception raised while a job is processed leaves process_video as
\* an exception, and MainWindow.process_video then emits error_occurred.
C9_Reraised ==
  \A r \in Returned :
    r.exit = "exception" =>
      r.raised /\ (r.origin = "wrapper" => r.error_occurred)

\* C10: process_multiple_videos runs one process_video call at a time, is
\* never ended by a call's failure, goes on to every later path, and
\* appends one result per path in the order of the list; each call either
\* drives its Video to a terminal status or finds it already in the lane.
BatchLive == {c \in Live : calls[c].origin = "batch"}
C10_BatchContinues ==
  /\ Cardinality(BatchLive) <= 1
  /\ batch.pc # "raised"
  /\ batch.pc = "running" =>
       \E c \in BatchLive : calls[c].index = batch.next - 1
  /\ batch.pc = "running" => Len(batch.results) = batch.next - 2
  /\ batch.pc = "done" => Len(batch.results) = Len(batch.paths)
  /\ \A r \in Returned :
       r.origin = "batch" =>
         /\ r.index <= Len(batch.results)
         /\ batch.paths[r.index] = r.path
         /\ batch.results[r.index] = r.ret
         /\ \/ r.outcome \in Terminal
            \/ ~r.admitted /\ r.vid \in r.processing

\* C10 happens: the first Video of a list of two ended in ERROR or CANCELED
\* and the call for the second has just ended with status FIX.
C10_Witness ==
  /\ batch.pc = "done"
  /\ Len(batch.paths) = 2
  /\ batch.results = <<"False", "True">>
  /\ StatusOf(IdOfPath(World, batch.paths[1])) \in {ERROR, CANCELED}
  /\ \E r \in Returned : r.origin = "batch" /\ r.index = 2 /\ r.outcome = FIX

\* C11: wait_for_processing never issues more than retry_count polls; a call
\* whose every poll saw PROCESSING ends by raising TimeoutError after exactly
\* retry_count polls; and every call that started ends.
C11_WaitTimesOut ==
  /\ [](wait.polls <= retry_count)
  /\ [](wait.pc = "done" /\ wait.last = "PROCESSING" =>
          /\ wait.outcome = "TimeoutError"
          /\ wait.polls = retry_count
          /\ wait.slept = retry_count * retry_delay)
  /\ (wait.pc = "get_file" ~> wait.pc = "done")

\* C11 happens: a call has raised TimeoutError after retry_count polls that
\* all saw PROCESSING.
C11_Witness ==
  /\ wait.outcome = "TimeoutError"
  /\ wait.polls = retry_count
  /\ wait.last = "PROCESSING"

\* C12: get_latest_analysis_result returns None for a Video with no attempt
\* and otherwise the attempt of the Video that was inserted last, which has
\* the greatest created_at among the attempts of the Video.
C12_LatestIsNewest ==
  store_call.op = "get_latest_analysis_result" =>
    LET ids == AttemptIds(World, store_call.video_id) IN
      IF ids = {} THEN store_call.id = 0
      ELSE /\ store_call.id \in ids
           /\ \A j \in ids :
                /\ j <= store_call.id
                /\ analysis_results[j].created_at
                     <= analysis_results[store_call.id].created_at

\* C13: analysis_results is append-only: a step adds at most one row, and
\* every row already there stays in place with the same content.
C13_AppendOnly ==
  [][/\ Len(analysis_results') \in
          {Len(analysis_results), Len(analysis_results) + 1}
     /\ \A i \in 1..Len(analysis_results) :
          analysis_results'[i] = analysis_results[i]]_vars

\* What the call that has just ended left in the store, in a behaviour
\* with one job at a time: the newest analysis_results row and the newest
\* n rows of tags.
LastRow == analysis_results[Len(analysis_results)]
LastTags(n) == [i \in 1..n |-> tags[Len(tags) - n + i]]
NullExcept(fields, keep) ==
  \A f \in (DOMAIN fields) \ keep : fields[f] = Null

\* C14: a job whose provider text is {"Appropriate Scene": "combat",
\* "character_gender": "male"} stores appropriate_scene = "combat" and
\* character_gender = "male" with every other canonical field null, and
\* exactly the tags scene:combat and gender:male, in this order.
C14_SceneGender ==
  \A r \in Returned :
    r.text = <<RespObject.raw>> /\ ~r.cancel_seen =>
      /\ r.outcome = FIX
      /\ r.n_results = 1
      /\ LastRow.video_id = r.vid
      /\ LastRow.fields.appropriate_scene = Str("combat")
      /\ LastRow.fields.character_gender = Str("male")
      /\ NullExcept(LastRow.fields, {"appropriate_scene", "character_gender"})
      /\ r.n_tags = 2
      /\ LastTags(2) =
           <<[video_id |-> r.vid, tag |-> <<"scene", "combat">>,
              source |-> "auto"],
             [video_id |-> r.vid, tag |-> <<"gender", "male">>,
              source |-> "auto"]>>

\* C14 happens: a job with this provider text has just ended with FIX.
C14_Witness ==
  \E r \in Returned :
    r.text = <<RespObject.raw>> /\ r.outcome = FIX /\ r.n_tags = 2

\* A text from which no parse strategy gets a key/value pair.
NoPairs(text) ==
  /\ ~(text.json.type = "dict" /\ text.json.items # <<>>)
  /\ ~(text.json = Raised /\ text.brace /\ text.literal.type = "dict"
       /\ text.literal.items # <<>>)
  /\ text.pairs = <<>>

\* C15: a job whose provider text yields no key/value pair under any parse
\* strategy does not fail: it ends with FIX and stores a record whose only
\* item is raw_text, holding the whole text, with every canonical field
\* null and no tags.
C15_NeverHardFailure ==
  \A r \in Returned : \A text \in Responses :
    r.text = <<text.raw>> /\ NoPairs(text) /\ ~r.cancel_seen =>
      /\ r.exit = "true"
      /\ r.outcome = FIX
      /\ r.n_results = 1
      /\ LastRow.result_json.items = <<<<"raw_text", Str(text.raw)>>>>
      /\ NullExcept(LastRow.fields, {})
      /\ r.n_tags = 0

\* C16: a job whose provider text is `Scene: combat, Tempo: fast` does not
\* fail: the record it stores is the one the regex strategy extracts, and
\* at least one canonical field of it is not null.
C16_RegexFallback ==
  \A r \in Returned :
    r.text = <<RespKeyValue.raw>> /\ ~r.cancel_seen =>
      /\ r.exit = "true"
      /\ r.outcome = FIX
      /\ r.n_results = 1
      /\ LastRow.result_json.items = RespKeyValue.pairs
      /\ \E f \in DOMAIN LastRow.fields : LastRow.fields[f] # Null

\* C16 happens: a job with this provider text has just ended with FIX and
\* appropriate_scene = "combat".
C16_Witness ==
  \E r \in Returned :
    /\ r.text = <<RespKeyValue.raw>>
    /\ r.outcome = FIX
    /\ LastRow.fields.appropriate_scene = Str("combat")

\* C17: the result_json of the row a job stores is, character for
\* character, the text the provider returned to that job.
C17_RawTextVerbatim ==
  \A r \in Returned :
    r.n_results = 1 => LastRow.result_json.text = r.text[1]

\* C18: in a process started without GOOGLE_API_KEY the construction of
\* GeminiAPI and of VideoProcessor fails: the window never runs, no
\* process_video call is accepted or queued, and no videos row, status
\* change, analysis_results row or tag is produced.
C18_NoCredentialNoJob ==
  ~app.api_key =>
    /\ app.pc # "running"
    /\ videos = <<>>
    /\ analysis_results = <<>>
    /\ tags = <<>>
    /\ calls = <<>>
    /\ loop_queue = <<>>
    /\ processing = {}

\* C18 happens: main has ended with sys.exit(1) for lack of the key.
C18_Witness == ~app.api_key /\ app.pc = "exit"

\* C19: update_video_status with a status outside VideoStatus raises and
\* leaves the row of the Video (status, progress, updated_at) as it was;
\* and the status of every Video is a member of VideoStatus.
C19_ValidStatusOnly ==
  /\ \A v \in 1..Len(videos) : StatusOf(v) \in VideoStatus
  /\ store_call.op = "update_video_status"
       /\ store_call.status \notin VideoStatus =>
         /\ store_call.raised
         /\ videos[store_call.video_id] = store_call.before

\* C19 happens: update_video_status has just raised on a status outside
\* VideoStatus, for a Video whose row was last written a second earlier.
C19_Witness ==
  /\ store_call.op = "update_video_status"
  /\ store_call.status \notin VideoStatus
  /\ store_call.raised
  /\ store_call.before.status # UNPROCESSED
  /\ store_call.before.updated_at < now

\* C20: _processing never holds more than one video id, at most one call
\* is in analyze_video, and every call that is past the lane check holds
\* the lane, whatever the order in which waiting coroutines wake.
C20_OneInLane ==
  /\ Cardinality(processing) <= 1
  /\ Cardinality({c \in Live : calls[c].pc = "analyze_video"}) <= 1
  /\ Cardinality({c \in Live : calls[c].pc \in InLane}) <= 1
  /\ \A c \in Live : calls[c].pc \in InLane => calls[c].vid \in processing

\* C20 happens: a call that waited has entered the lane and is in
\* analyze_video while another call is still in the wait loop.
C20_Witness ==
  \E a, b \in Live :
    /\ calls[a].pc = "analyze_video"
    /\ calls[a].waited
    /\ calls[b].pc = "waiting"
    /\ processing = {calls[a].vid}

\* C21: when a call that was in the lane ends, with FIX, ERROR or CANCELED,
\* no cancellation flag is left set for its Video, so that a later call for
\* the Video cannot be cancelled by a request made during this one.
C21_FlagScoped ==
  \A r \in Returned : r.admitted => r.vid \notin r.cancel_requested

\* A call that went past the cancellation checkpoint: it made the
\* progress 50 callback.
PastCheckpoint(r) ==
  \E i \in 1..Len(r.callbacks) : r.callbacks[i] = <<"progress", 50>>

\* C22: the cancellation flag is read at one point only, after
\* analyze_video returned and before anything is stored.  The step that
\* sets a flag changes no status, row, tag, call or lane; a call ends
\* CANCELED only if the flag was set when analyze_video returned, and then
\* it has stored nothing; a call that went past the checkpoint ends with
\* FIX, its analysis_results row and its tags, whether or not a flag was
\* set afterwards.
C22_SingleCheckpoint ==
  /\ [][cancel_requested' # cancel_requested
          /\ cancel_requested \subseteq cancel_requested' =>
            UNCHANGED <<videos, analysis_results, tags, calls,
                        processing>>]_vars
  /\ [](\A r \in Returned :
          /\ r.outcome = CANCELED =>
               r.cancel_seen /\ ~PastCheckpoint(r)
               /\ r.n_tags = 0 /\ r.n_results = 0
          /\ PastCheckpoint(r) =>
               /\ ~r.cancel_seen
               /\ r.outcome = FIX
               /\ r.status = FIX
               /\ r.ret = "True"
               /\ r.n_results = 1
               /\ r.n_tags = 2)

\* C22 happens: a call has just ended with FIX although the flag of its
\* Video was set after the checkpoint.
C22_Witness ==
  \E r \in Returned :
    /\ r.outcome = FIX
    /\ ~r.cancel_seen
    /\ r.vid \in r.cancel_requested
    /\ r.n_results = 1

PendingCount(callbacks) ==
  Cardinality({i \in 1..Len(callbacks) : callbacks[i] = <<"status", PENDING>>})

\* C24: a call that finds the lane taken by another Video writes and
\* notifies PENDING once, as its first callback, and a call that finds the
\* lane free never does; a turn of the wait loop writes and notifies
\* nothing; and a waiting call goes on to PROCESSING only from a state in
\* which _processing is empty.
C24_PendingOnce ==
  /\ [](/\ \A c \in Live :
            /\ PendingCount(calls[c].callbacks)
                 = (IF calls[c].waited THEN 1 ELSE 0)
            /\ calls[c].waited =>
                 calls[c].callbacks[1] = <<"status", PENDING>>
            /\ calls[c].pc = "waiting" =>
                 /\ calls[c].waited
                 /\ calls[c].callbacks = <<<<"status", PENDING>>>>
        /\ \A r \in Returned :
            PendingCount(r.callbacks) = (IF r.waited THEN 1 ELSE 0))
  /\ [][/\ \A c \in 1..Len(calls) :
            calls[c].pc = "waiting" =>
              IF calls'[c].pc = "waiting"
                THEN calls'[c] = calls[c]
                ELSE processing = {}
       /\ \A c \in (Len(calls) + 1)..Len(calls') :
            calls'[c].pc = "waiting" =>
              /\ processing' # {}
              /\ calls'[c].vid \notin processing'
              /\ videos'[calls'[c].vid].status = PENDING]_vars

\* C24 happens: a call that waited with PENDING has been admitted and is
\* in analyze_video with status PROCESSING.
C24_Witness ==
  \E c \in Live :
    /\ calls[c].waited
    /\ calls[c].pc = "analyze_video"
    /\ calls[c].callbacks =
         <<<<"status", PENDING>>, <<"status", PROCESSING>>, <<"progress", 0>>>>
    /\ StatusOf(calls[c].vid) = PROCESSING

\* The position of a callback among the callbacks of a call, 0 for none.
IndexOf(callbacks, callback) ==
  LET at == {i \in 1..Len(callbacks) : callbacks[i] = callback}
  IN IF at = {} THEN 0 ELSE CHOOSE i \in at : \A j \in at : i <= j

\* C25: a successful job writes progress 50 after analyze_video returned,
\* then persists its Tags and its AnalysisAttempt, then writes FIX with
\* progress 100: while it persists, 50 is its last write and FIX is not
\* written; the step that writes FIX adds the attempt row; and a Video with
\* status FIX always has a persisted AnalysisAttempt.
C25_SuccessOrder ==
  /\ [](/\ \A v \in DOMAIN videos :
            StatusOf(v) = FIX => AttemptIds(World, v) # {}
        /\ \A c \in Live :
            LET cb == calls[c].callbacks IN
            /\ IndexOf(cb, <<"status", FIX>>) = 0
            /\ calls[c].n_results = 0
            /\ calls[c].pc \in {"add_tags", "add_analysis_result"} =>
                 /\ calls[c].invoked
                 /\ cb[Len(cb)] = <<"progress", 50>>
            /\ calls[c].pc = "add_tags" => calls[c].n_tags = 0
        /\ \A r \in Returned :
            LET cb == r.callbacks IN
            /\ r.outcome = FIX <=> IndexOf(cb, <<"status", FIX>>) # 0
            /\ r.outcome = FIX =>
                 /\ r.invoked /\ r.n_results = 1
                 /\ IndexOf(cb, <<"progress", 50>>) # 0
                 /\ IndexOf(cb, <<"status", FIX>>)
                      = IndexOf(cb, <<"progress", 50>>) + 1
                 /\ cb[Len(cb)] = <<"progress", 100>>
                 /\ AttemptIds(World, r.vid) # {})
  /\ [][\A i \in 1..Len(returned') :
          LET r == returned'[i] IN
          r.outcome = FIX =>
            /\ calls[r.call].pc = "add_analysis_result"
            /\ Len(analysis_results') = Len(analysis_results) + 1
            /\ analysis_results'[Len(analysis_results')].video_id = r.vid
            /\ tags' = tags]_vars

\* C25 happens: a job has ended with FIX and its Video holds an attempt.
C25_Witness ==
  \E r \in Returned :
    /\ r.outcome = FIX /\ r.status = FIX /\ r.n_results = 1
    /\ AttemptIds(World, r.vid) # {}

IsPrefix(s, t) == Len(s) <= Len(t) /\ \A i \in 1..Len(s) : s[i] = t[i]

\* C26: the provider calls of one analyze_video are a prefix of upload,
\* awaitReady, invoke, each made at most once and one at a time; awaitReady
\* is made only after upload_video returned the file and invoke only after
\* wait_for_processing returned True; after a failed upload, or a wait that
\* raised or timed out, the job has ended and makes no further call.
C26_ClientCallOrder ==
  /\ [](/\ IsPrefix(wait.issued, <<"upload", "awaitReady", "invoke">>)
        /\ Len(wait.issued) >= 2 => wait.upload = "uploaded"
        /\ Len(wait.issued) = 3 =>
             wait.outcome = "True" /\ wait.last = "ACTIVE"
        /\ wait.upload \in UploadOutcomes \ {"uploaded"} =>
             wait.issued = <<"upload">> /\ wait.at = "raise"
        /\ wait.outcome \in {"Exception", "TimeoutError"} =>
             wait.issued = <<"upload", "awaitReady">> /\ wait.at = "raise")
  /\ [][/\ IsPrefix(wait.issued, wait'.issued)
        /\ Len(wait'.issued) <= Len(wait.issued) + 1
        /\ wait.at \in {"raise", "return"} => wait' = wait]_vars

\* C26 happens: a job has made the three calls and returned.
C26_Witness ==
  /\ wait.issued = <<"upload", "awaitReady", "invoke">>
  /\ wait.at = "return"
  /\ wait.polls > 1

\* C27: a poll that sees ACTIVE ends wait_for_processing with True and one
\* that sees FAILED, an unrecognised state or an exception of get_file ends
\* it by raising; a poll is issued only first or after a poll that saw
\* PROCESSING, so none follows such an observation.
C27_PollUntilObserved ==
  /\ [](/\ wait.last = "ACTIVE" => wait.pc = "done" /\ wait.outcome = "True"
        /\ wait.last \in FileStates \ {"ACTIVE", "PROCESSING"} =>
             wait.pc = "done" /\ wait.outcome = "Exception"
        /\ wait.last = "none" <=> wait.polls = 0
        /\ wait.pc = "get_file" /\ wait.polls > 0 =>
             wait.last = "PROCESSING")
  /\ [][wait'.polls # wait.polls =>
          /\ wait'.polls = wait.polls + 1
          /\ wait.last \in {"none", "PROCESSING"}
          /\ wait.pc = "get_file"
          /\ wait'.last = "PROCESSING" /\ wait'.polls < retry_count =>
               wait'.pc = "get_file" /\ ~Exhausted(wait'.attempt)]_vars

\* C27 happens: the second poll saw FAILED after a first that saw PROCESSING
\* and the call raised at once.
C27_Witness ==
  /\ wait.last = "FAILED"
  /\ wait.polls = 2
  /\ wait.slept = retry_delay
  /\ wait.outcome = "Exception"

\* The first strategy, in the order json.loads, literal parse of a {...}
\* text, key/value regex, whole text, that succeeds on a text, and what that
\* strategy yields.
FirstStrategy(text) ==
  IF text.json # Raised THEN "json"
  ELSE IF text.brace /\ text.literal.type = "dict" THEN "literal"
  ELSE IF text.pairs # <<>> THEN "regex"
  ELSE "raw_text"
Yield(text, strategy) ==
  CASE strategy = "json" -> text.json
    [] strategy = "literal" -> text.literal
    [] strategy = "regex" -> Dict(text.pairs)
    [] strategy = "raw_text" -> Dict(<<<<"raw_text", Str(text.raw)>>>>)

\* C28: for every response text a job received, _parse_response returns
\* what the first succeeding strategy yields, the literal parse being used
\* only on a text of the shape {...}, and the result is a dict.
C28_FirstStrategyWins ==
  \A r \in Returned : \A text \in Responses :
    r.text = <<text.raw>> =>
      LET result == _parse_response(text) IN
      /\ result = Yield(text, FirstStrategy(text))
      /\ FirstStrategy(text) = "literal" => text.brace
      /\ result.type = "dict"

\* The places in a field's alias list of the keys a dict holds.
PresentAt(items, aliases) ==
  {i \in 1..Len(aliases) : HasKey(items, aliases[i])}
Least(S) == CHOOSE i \in S : \A j \in S : i <= j
AliasKeys ==
  {field_mapping[f][i] : f \in DOMAIN field_mapping, i \in 1..4}
  \cup {field_mapping.animation_name[5]}
IsAlias(item) == item[1] \in AliasKeys

\* C29: in the attempt a job stored, each canonical field holds the value
\* of the first key of its alias list that the parsed dict holds, null
\* included, and null when the dict holds none of them; the keys that are
\* in no alias list change no field.
C29_FirstPresentAlias ==
  \A r \in Returned : \A text \in Responses :
    r.text = <<text.raw>> /\ r.n_results = 1 =>
      LET d == _parse_response(text).items IN
      /\ LastRow.video_id = r.vid
      /\ \A f \in DOMAIN field_mapping :
           LET at == PresentAt(d, field_mapping[f]) IN
           LastRow.fields[f] = IF at = {} THEN Null
                               ELSE Get(d, field_mapping[f][Least(at)])
      /\ LastRow.fields
           = _extract_fields_from_result(Dict(SelectSeq(d, IsAlias)))

\* C29 happens: the attempt of a job that received the drifted object is
\* stored, with "Scene" before "scene", "Tempo" taken, the null of
\* character_gender kept although "gender" holds a value, "note" nowhere.
C29_Witness ==
  \E r \in Returned :
    /\ r.text = <<RespDrift.raw>> /\ r.n_results = 1 /\ r.outcome = FIX
    /\ LastRow.fields.appropriate_scene = Str("combat")
    /\ LastRow.fields.tempo_speed = Str("fast")
    /\ LastRow.fields.character_gender = Null
    /\ NullExcept(LastRow.fields, {"appropriate_scene", "tempo_speed"})

\* The tag prefix of each canonical field that has one.
TagPrefix ==
  [appropriate_scene |-> "scene", tempo_speed |-> "tempo",
   intensity_force |-> "intensity", loopable |-> "loopable",
   character_gender |-> "gender", character_age_group |-> "age",
   character_body_type |-> "body"]

\* C30: the auto tags a job stored are, for each of the seven canonical
\* fields with a tag prefix, one tag prefix:value when the field of the
\* stored attempt is not null, and none when it is null.
C30_TagsAgreeWithFields ==
  \A r \in Returned :
    r.n_results = 1 /\ r.outcome = FIX =>
      /\ LastRow.video_id = r.vid
      /\ {LastTags(r.n_tags)[i].tag : i \in 1..r.n_tags}
           = {<<TagPrefix[f], LastRow.fields[f].s>> :
                f \in {g \in DOMAIN TagPrefix : LastRow.fields[g] # Null}}
      /\ r.n_tags
           = Cardinality({g \in DOMAIN TagPrefix : LastRow.fields[g] # Null})

\* The steps that Qt runs on the GUI thread: the slots of MainWindow, which
\* call the Job Store and VideoProcessor.cancel_processing themselves and
\* hand coroutines to the loop thread with run_coroutine_threadsafe.
GuiThread ==
  \/ \E path \in Paths : \E auto_process \in BOOLEAN :
       process_dropped_files(path, auto_process)
  \/ \E v \in 1..NumPaths : on_reprocess(v)
  \/ \E n \in 1..MaxBatch : \E ids \in [1..n -> 1..Len(videos)] :
       on_batch_process(ids)
  \/ \E v \in 1..NumPaths : cancel_processing(v)

\* The steps in which the worker thread of self.executor writes the Job
\* Store: run_in_executor(self.executor, self.db.add_tags, ...) and
\* run_in_executor(self.executor, self.db.add_analysis_result, ...).
ExecutorWrite ==
  \E c \in CallIds :
    \/ AddTags(c) /\ tags' # tags
    \/ AddAnalysisResult(c) /\ analysis_results' # analysis_results

\* C31: _processing, _cancel_requested and the Job Store change only in
\* steps of the event-loop thread: never in a slot run by the GUI thread
\* and never by a write made on the executor's worker thread.
C31_LoopThreadOnly ==
  [][/\ processing' # processing => ~GuiThread
     /\ cancel_requested' # cancel_requested => ~GuiThread
     /\ videos' # videos => ~GuiThread
     /\ tags' # tags \/ analysis_results' # analysis_results =>
          ~GuiThread /\ ~ExecutorWrite]_vars

\* C32: when a job has ended with FIX, prompt_name of its Video is the
\* configuration name that the job passed to analyze_video.
C32_PromptOfLatestAttempt ==
  \A r \in Returned :
    r.outcome = FIX => videos[r.vid].prompt_name = r.config

\* C33: a submission that waits for the lane is admitted in the end, and
\* a Video in the lane reaches FIX, ERROR or CANCELED in the end.
C33_EveryJobEnds ==
  \A v \in 1..NumPaths :
    /\ (\E c \in Live : calls[c].vid = v /\ calls[c].pc = "waiting")
         ~> (v \in processing)
    /\ (v \in processing)
         ~> (v \in DOMAIN videos /\ StatusOf(v) \in Terminal)

\* A submission of the Video is waiting, in the lane, or handed to the loop
\* and not yet started.
Submitted(v) ==
  \/ \E c \in Live : calls[c].vid = v
  \/ \E i \in 1..Len(loop_queue) : \E j \in 1..Len(loop_queue[i].paths) :
       loop_queue[i].paths[j] = videos[v].file_path
  \/ /\ batch.pc = "running"
     /\ \E j \in batch.next..Len(batch.paths) :
          batch.paths[j] = videos[v].file_path

\* C34: a Video without a submission is UNPROCESSED, FIX, ERROR or
\* CANCELED, whatever Job Store call raised on the way; and a call that
\* returns while no other submission of its Video is under way does not
\* leave it PENDING or PROCESSING.
C34_NoStatusLeftBehind ==
  /\ \A v \in DOMAIN videos :
       ~Submitted(v) => StatusOf(v) \in {UNPROCESSED} \cup Terminal
  /\ \A r \in Returned :
       r.vid \in DOMAIN videos /\ ~Submitted(r.vid)
         => r.status \notin {PENDING, PROCESSING}

\* C35: a job that has ended has stored its tags if and only if it has
\* stored its attempt: no job ends with tags in the tags table and no row
\* of its own in analysis_results, nor with the row and without the tags
\* that extract_tags derived.
C35_TagsWithAttempt ==
  \A r \in Returned :
    /\ r.n_tags > 0 =>
         /\ r.n_results = 1
         /\ AttemptIds(World, r.vid) # {}
    /\ r.n_results = 1 =>
         /\ Len(tags) >= r.n_tags
         /\ \A i \in 1..r.n_tags : LastTags(r.n_tags)[i].video_id = r.vid

\* C36: no Video has two process_video calls that wait for the lane or are
\* in it.
C36_OneWaiterPerVideo ==
  \A v \in DOMAIN videos :
    Cardinality({c \in Live : /\ calls[c].vid = v
                              /\ calls[c].pc \in {"waiting"} \cup InLane}) <= 1

\* C37: cancel_processing for a Video that is not in _processing changes
\* no table, flag, lane or coroutine; a flag is only ever recorded for a
\* Video in _processing; and a job ends CANCELED only having found a flag
\* at its checkpoint, so never through such a call.
C37_CancelOutsideLaneNoOp ==
  /\ [][/\ store_call'.op = "cancel_processing"
           /\ store_call'.video_id \notin processing
           => UNCHANGED <<videos, analysis_results, tags, processing,
                          cancel_requested, calls, batch, loop_queue>>
        /\ \A v \in cancel_requested' \ cancel_requested :
             v \in processing]_vars
  /\ [](\A r \in Returned : r.outcome = CANCELED => r.cancel_seen)

\* C37 happens: Cancel has just been pressed on a Video whose submission
\* waits for the lane with PENDING, while another Video is in the lane.
C37_Witness ==
  /\ store_call.op = "cancel_processing"
  /\ store_call.video_id \notin processing
  /\ store_call.video_id \notin cancel_requested
  /\ processing # {}
  /\ StatusOf(store_call.video_id) = PENDING
  /\ \E c \in Live : /\ calls[c].vid = store_call.video_id
                      /\ calls[c].pc = "waiting"

\* The progress values notified among the callbacks of a call, in order.
IsProgress(callback) == callback[1] = "progress"
Notified(callbacks) ==
  LET p == SelectSeq(callbacks, IsProgress)
  IN [i \in 1..Len(p) |-> p[i][2]]
ProgressInOrder(callbacks) ==
  /\ IsPrefix(Notified(callbacks), <<0, 50, 100>>)
  /\ \A i \in 1..Len(callbacks) :
       callbacks[i] = <<"progress", 100>> =>
         i > 1 /\ callbacks[i - 1] = <<"status", FIX>>
  /\ \A i \in 1..Len(callbacks) :
       callbacks[i] = <<"status", FIX>> =>
         i < Len(callbacks) /\ callbacks[i + 1] = <<"progress", 100>>

\* C38: the progress of every Video is 0, 50 or 100, 100 with FIX and 0 or
\* 50 with PROCESSING; a row is inserted UNPROCESSED with progress 0; and
\* the progress notifications of one process_video call are a prefix of
\* 0, 50, 100, the 100 coming with the FIX notification and only with it.
C38_ProgressValues ==
  /\ [](/\ \A v \in DOMAIN videos :
            /\ videos[v].progress \in {0, 50, 100}
            /\ StatusOf(v) = FIX => videos[v].progress = 100
            /\ StatusOf(v) = PROCESSING => videos[v].progress \in {0, 50}
            /\ StatusOf(v) = UNPROCESSED => videos[v].progress = 0
        /\ \A c \in Live : ProgressInOrder(calls[c].callbacks)
        /\ \A r \in Returned : ProgressInOrder(r.callbacks))
  /\ [][\A v \in (DOMAIN videos') \ DOMAIN videos :
          videos'[v].status = UNPROCESSED /\ videos'[v].progress = 0]_vars

\* C38 happens: a Video that was FIX with progress 100 is being processed
\* again, at progress 50, and its job has notified 0 and 50.
C38_Witness ==
  \E c \in Live :
    /\ Notified(calls[c].callbacks) = <<0, 50>>
    /\ StatusOf(calls[c].vid) = PROCESSING
    /\ videos[calls[c].vid].progress = 50
    /\ AttemptIds(World, calls[c].vid) # {}

====
